---- MODULE Spec2Model ----
(***************************************************************************)
(* Model of src/index.js: a WhatsApp bot that relays inbound messages to a *)
(* webhook (client.on('message')), dispatches replies posted to /reply     *)
(* (handleReply) and logs the session's lifecycle events (setupQR,         *)
(* setupClientStatus, startBot).                                           *)
(*                                                                         *)
(* Every async handler is cut at its awaits: one action per segment that   *)
(* the event loop runs without interruption.  The outcome of each external *)
(* call (token endpoint, media download, upload, webhook, fromUrl,         *)
(* sendMessage) is the environment's choice; it is drawn when the handler  *)
(* is invoked and stored with the task (field env), so that two tasks can  *)
(* be compared under the same environment.                                 *)
(***************************************************************************)
EXTENDS Integers, Sequences, FiniteSets, TLC

VARIABLES
  alive,      \* the node process is running
  msgs,       \* one record per inbound 'message' event (message handler task)
  reqs,       \* one record per POST /reply request (handleReply task)
  server,     \* app.listen: "down" | "listening"
  initPc,     \* startBot: "idle" | "initializing" | "done" | "failed"
  nInit,      \* calls of client.initialize() so far
  session,    \* what the lifecycle handlers last reported for client1
  qrTasks,    \* 'qr' handler tasks: in flight by the await they wait on, and ended by a rejection
  nEvents     \* session-provider events delivered so far

vars == <<alive, msgs, reqs, server, initPc, nInit, session, qrTasks, nEvents>>

(***************************************************************************)
(* Bounds                                                                  *)
(***************************************************************************)
MaxImgs == 3       \* longest imageUrl array of a single /reply request
MaxPairImgs == 2   \* longest imageUrl array when two requests run together
NumMsg == 2        \* inbound message events
MaxEvents == 4     \* session-provider events

(***************************************************************************)
(* JavaScript values.  Every value is a record of the same shape:          *)
(*   t = "undef" | "null" | "str" | "arr",  s = the string,  a = the array *)
(***************************************************************************)
Undef == [t |-> "undef", s |-> "", a |-> <<>>]
Null == [t |-> "null", s |-> "", a |-> <<>>]
Str(x) == [t |-> "str", s |-> x, a |-> <<>>]
Arr(xs) == [t |-> "arr", s |-> "", a |-> xs]

\* JavaScript truthiness: undefined, null and '' are falsy; every array is truthy
Truthy(v) ==
  CASE v.t = "undef" -> FALSE
    [] v.t = "null" -> FALSE
    [] v.t = "str" -> v.s # ""
    [] v.t = "arr" -> TRUE

\* Array.isArray(v)
IsArray(v) == v.t = "arr"

\* typeof v === 'string'
IsString(v) == v.t = "str"

(***************************************************************************)
(* JSON text of the four logical fields.  JSON.stringify drops the keys    *)
(* whose value is undefined and keeps null; JSON.parse gives back an       *)
(* object in which a missing key reads as undefined.                       *)
(***************************************************************************)
Keys == <<"from", "reply", "imageUrl", "caption">>

EmptyObj == [from |-> Undef, reply |-> Undef, imageUrl |-> Undef, caption |-> Undef]

Field(o, k) ==
  CASE k = "from" -> o.from
    [] k = "reply" -> o.reply
    [] k = "imageUrl" -> o.imageUrl
    [] k = "caption" -> o.caption

JSONstringify(o) ==
  LET pairs == [i \in 1..Len(Keys) |-> [k |-> Keys[i], v |-> Field(o, Keys[i])]]
  IN SelectSeq(pairs, LAMBDA p : p.v.t # "undef")

JSONget(text, k) ==
  IF \E i \in 1..Len(text) : text[i].k = k
    THEN text[CHOOSE i \in 1..Len(text) : text[i].k = k].v
    ELSE Undef

JSONparse(text) ==
  [from |-> JSONget(text, "from"), reply |-> JSONget(text, "reply"),
   imageUrl |-> JSONget(text, "imageUrl"), caption |-> JSONget(text, "caption")]

(***************************************************************************)
(* req.body.  t = "str": the body is the JSON text json.  t = "obj": the   *)
(* body is an object with the four fields f and a field data, itself       *)
(* undefined, a JSON text or an object.                                    *)
(***************************************************************************)
NoData == [t |-> "undef", json |-> <<>>, f |-> EmptyObj]

BodyOf(L, shape) ==
  CASE shape = "string" ->
         [t |-> "str", json |-> JSONstringify(L), f |-> EmptyObj, data |-> NoData]
    [] shape = "dataString" ->
         [t |-> "obj", json |-> <<>>, f |-> EmptyObj,
          data |-> [t |-> "str", json |-> JSONstringify(L), f |-> EmptyObj]]
    [] shape = "dataObject" ->
         [t |-> "obj", json |-> <<>>, f |-> EmptyObj,
          data |-> [t |-> "obj", json |-> <<>>, f |-> L]]
    [] shape = "bare" ->
         [t |-> "obj", json |-> <<>>, f |-> L, data |-> NoData]

Shapes == {"string", "dataString", "dataObject", "bare"}

\* a text that is not JSON (JSONstringify never writes an undefined value)
NotJson == <<[k |-> "{", v |-> Undef]>>

\* JSON.parse(text) returns rather than throws a SyntaxError
Decodable(text) == \A i \in 1..Len(text) : text[i].v.t # "undef"

\* requests that carry no payload: a body or a data string that is not JSON,
\* and no body at all, which req.body shows as undefined or as {} depending on
\* the body-parser release installed
MalformedShapes == {"badString", "badData", "missing"}

MalformedBodies(shape) ==
  CASE shape = "badString" ->
         {[t |-> "str", json |-> NotJson, f |-> EmptyObj, data |-> NoData]}
    [] shape = "badData" ->
         {[t |-> "obj", json |-> <<>>, f |-> EmptyObj,
           data |-> [t |-> "str", json |-> NotJson, f |-> EmptyObj]]}
    [] shape = "missing" ->
         {[t |-> "undef", json |-> <<>>, f |-> EmptyObj, data |-> NoData],
          [t |-> "obj", json |-> <<>>, f |-> EmptyObj, data |-> NoData]}

\* lines 169-173 throw: JSON.parse on a text that is not JSON, or the read of
\* req.body.data on an undefined body
ResolveThrows(body) ==
  \/ body.t = "undef"
  \/ body.t = "str" /\ ~Decodable(body.json)
  \/ body.t = "obj" /\ body.data.t = "str" /\ ~Decodable(body.data.json)

\* Faulty variant of ResolvePayload: the envelope's data object is not unwrapped
ResolvePayload_NoUnwrap(body) ==
  IF body.t = "str" THEN JSONparse(body.json)
  ELSE IF body.data.t = "str" THEN JSONparse(body.data.json)
  ELSE body.f

\* const payload = typeof req.body === 'string' ? JSON.parse(req.body)
\*   : typeof req.body.data === 'string' ? JSON.parse(req.body.data)
\*   : req.body.data || req.body
ResolvePayload(body) ==
  IF body.t = "str" THEN JSONparse(body.json)
  ELSE IF body.data.t = "str" THEN JSONparse(body.data.json)
  ELSE IF body.data.t = "obj" THEN body.data.f
  ELSE body.f

\* Faulty variant of Rejected: the presence of `from` is not checked
Rejected_NoFrom(p) == ~Truthy(p.reply) /\ ~Truthy(p.imageUrl)

\* if (!from || (!reply && !imageUrl)) return res.status(400)...
Rejected(p) == ~Truthy(p.from) \/ (~Truthy(p.reply) /\ ~Truthy(p.imageUrl))

\* Faulty variant of CaptionOf: nullish coalescing, caption ?? reply ?? ''
CaptionOf_Nullish(p) ==
  IF p.caption.t \notin {"undef", "null"} THEN p.caption
  ELSE IF p.reply.t \notin {"undef", "null"} THEN p.reply
  ELSE Str("")

\* caption || reply || ''
CaptionOf(p) ==
  IF Truthy(p.caption) THEN p.caption
  ELSE IF Truthy(p.reply) THEN p.reply
  ELSE Str("")

(***************************************************************************)
(* Sends.  A media object is known by the URL it was fetched from.         *)
(***************************************************************************)
NoOptions == [hasCaption |-> FALSE, caption |-> Undef]
WithCaption(c) == [hasCaption |-> TRUE, caption |-> c]

Media(url) == [kind |-> "media", src |-> url]
Text(v) == [kind |-> "text", src |-> v]

\* Faulty variant of ArrayOneOptions: the one-element branch forgets the caption
ArrayOneOptions_None(p) == NoOptions

\* line 185: { caption: caption || reply || '' }
ArrayOneOptions(p) == WithCaption(CaptionOf(p))

\* line 201: { caption: caption || reply || '' }
StringOptions(p) == WithCaption(CaptionOf(p))

\* Faulty variant of GalleryOptions: every send of the gallery carries the caption
GalleryOptions_All(i, p) == WithCaption(CaptionOf(p))

\* line 195: i === 0 ? { caption: caption || reply || '' } : {}   (i from 1 here)
GalleryOptions(i, p) == IF i = 1 THEN WithCaption(CaptionOf(p)) ELSE NoOptions

\* the message of the error an external call rejects with
ErrMsg(call, i) == [call |-> call, i |-> i]
NoDetail == [call |-> "", i |-> 0]


(***************************************************************************)
(* POST /reply: handleReply                                                *)
(***************************************************************************)
Reqs == {1, 2}

IdleReq ==
  [pc |-> "idle", logical |-> EmptyObj, shape |-> "", body |-> BodyOf(EmptyObj, "bare"),
   env |-> [failRes |-> {}, firstFail |-> 0, failSend |-> 0],
   payload |-> EmptyObj, mode |-> "",
   urls |-> <<>>, pending |-> {}, resolved |-> {},
   sends |-> <<>>, status |-> 0, detail |-> NoDetail, nresp |-> 0]

\* res.status(code).json(...) / res.json(...), after which the handler returns
Respond(q, code, detail) ==
  [q EXCEPT !.pc = "done", !.status = code, !.detail = detail, !.nresp = @ + 1]

\* client.sendMessage(from, content, options) is called and awaited
StartSend(q, content, opts) ==
  [q EXCEPT !.pc = "sending",
            !.sends = Append(@, [to |-> q.payload.from, content |-> content,
                                 opts |-> opts, st |-> "inflight"])]

\* MessageMedia.fromUrl is called for every URL of urls, in order, and awaited
StartFetch(q, mode, urls) ==
  [q EXCEPT !.pc = "resolving", !.mode = mode, !.urls = urls,
            !.pending = 1..Len(urls)]

\* the dispatch on the shape of imageUrl, lines 181-204, up to the first await
Dispatch(q) ==
  LET p == q.payload IN
  IF IsArray(p.imageUrl)
    THEN IF Len(p.imageUrl.a) = 1
           THEN StartFetch(q, "array1", <<p.imageUrl.a[1]>>)
           ELSE StartFetch(q, "all", p.imageUrl.a)
    ELSE IF IsString(p.imageUrl)
           THEN StartFetch(q, "string", <<p.imageUrl.s>>)
           ELSE StartSend([q EXCEPT !.mode = "text"], Text(p.reply), NoOptions)

\* Faulty variant of Catch: the error is logged and no response is written
Catch_NoResponse(q, err) == [q EXCEPT !.pc = "done", !.detail = err]

\* catch (err) { res.status(500).json({ error, detail: err.message }) }
Catch(q, err) == Respond(q, 500, err)

\* handleReply from its call to its first await (or to its early return)
HandleReplyStart(q0, body) ==
  IF ResolveThrows(body)
    THEN Catch([q0 EXCEPT !.body = body],
               ErrMsg(IF body.t = "undef" THEN "TypeError" ELSE "JSON.parse", 0))
    ELSE LET q == [q0 EXCEPT !.body = body, !.payload = ResolvePayload(body)] IN
         IF Rejected(q.payload) THEN Respond(q, 400, NoDetail) ELSE Dispatch(q)

\* the value of `options` for the send of the media resolved from URL number i
OptionsOf(q, i) ==
  CASE q.mode = "array1" -> ArrayOneOptions(q.payload)
    [] q.mode = "string" -> StringOptions(q.payload)
    [] q.mode = "all" -> GalleryOptions(i, q.payload)

\* the state of the last send of q is set to st
MarkSend(q, st) == [q EXCEPT !.sends[Len(q.sends)].st = st]

\* Faulty variant of SendRejected: the failure of a send is swallowed, the loop goes on
SendRejected_Swallow(q) ==
  LET k == Len(q.sends) + 1
      f == MarkSend(q, "failed") IN
  IF q.mode = "all" /\ k <= Len(q.urls)
    THEN StartSend(f, Media(Str(q.urls[k])), OptionsOf(q, k))
    ELSE Respond(f, 200, NoDetail)

\* await client.sendMessage(...) rejects: the rest of the batch is skipped
SendRejected(q) == Catch(MarkSend(q, "failed"), ErrMsg("sendMessage", Len(q.sends)))

\* await client.sendMessage(...) resolves: next iteration of the loop, or success
SendResolved(q) ==
  LET k == Len(q.sends) + 1
      d == MarkSend(q, "ok") IN
  IF q.mode = "all" /\ k <= Len(q.urls)
    THEN StartSend(d, Media(Str(q.urls[k])), OptionsOf(q, k))
    ELSE Respond(d, 200, NoDetail)

\* app.post('/reply'): express calls handleReply(req, res, client, 'client1')
PostReply(r, L, shape, env) ==
  /\ alive /\ server = "listening"
  /\ reqs[r].pc = "idle"
  /\ reqs' = [reqs EXCEPT ![r] =
       HandleReplyStart([IdleReq EXCEPT !.logical = L, !.shape = shape, !.env = env],
                        BodyOf(L, shape))]
  /\ UNCHANGED <<alive, msgs, server, initPc, nInit, session, qrTasks, nEvents>>

\* one MessageMedia.fromUrl promise settles (the promises settle in any order;
\* among those that reject, env.firstFail is the first)
FromUrlDone(r, i) ==
  LET q == reqs[r]
      rest == [q EXCEPT !.pending = @ \ {i}] IN
  /\ alive
  /\ i \in q.pending
  /\ (i \in q.env.failRes /\ i # q.env.firstFail) => q.env.firstFail \notin q.pending
  /\ reqs' = [reqs EXCEPT ![r] =
       IF q.pc # "resolving"
         THEN rest                  \* Promise.all has already rejected
       ELSE IF i \in q.env.failRes
         THEN Catch(rest, ErrMsg("fromUrl", i))
       ELSE IF q.mode = "all"
         THEN [rest EXCEPT !.resolved = @ \cup {i}]
       ELSE StartSend([rest EXCEPT !.resolved = @ \cup {i}],
                      Media(Str(q.urls[i])), OptionsOf(q, i))]
  /\ UNCHANGED <<alive, msgs, server, initPc, nInit, session, qrTasks, nEvents>>

\* Faulty variant of AllResolved: the batch goes on once its first URL is resolved
AllResolved_First(q) == 1 \notin q.pending

\* Promise.all resolves when every promise of the array has resolved
AllResolved(q) == q.pending = {}

\* await Promise.all(...) resolves with mediaList; the for loop starts
PromiseAllDone(r) ==
  LET q == reqs[r] IN
  /\ alive
  /\ q.pc = "resolving" /\ q.mode = "all" /\ AllResolved(q)
  /\ reqs' = [reqs EXCEPT ![r] =
       IF Len(q.urls) = 0
         THEN Respond(q, 200, NoDetail)
         ELSE StartSend(q, Media(Str(q.urls[1])), OptionsOf(q, 1))]
  /\ UNCHANGED <<alive, msgs, server, initPc, nInit, session, qrTasks, nEvents>>

\* the client.sendMessage promise in flight settles
SendMessageDone(r) ==
  LET q == reqs[r] IN
  /\ alive
  /\ q.pc = "sending"
  /\ reqs' = [reqs EXCEPT ![r] =
       IF q.env.failSend = Len(q.sends) THEN SendRejected(q) ELSE SendResolved(q)]
  /\ UNCHANGED <<alive, msgs, server, initPc, nInit, session, qrTasks, nEvents>>

(***************************************************************************)
(* The reply requests the model posts                                      *)
(***************************************************************************)
Urls == {"a", "b"}

\* the URL arrays of length n
ArraysOfLen(n) == [1..n -> Urls]

ImageVals(max) ==
  {Undef} \cup {Str(u) : u \in Urls}
    \cup {Arr(xs) : xs \in UNION {ArraysOfLen(n) : n \in 0..max}}

Logicals(max) ==
  [from : {Undef, Str("x")}, reply : {Undef, Str("hi")},
   imageUrl : ImageVals(max), caption : {Undef, Null, Str(""), Str("cap")}]

\* the outcomes of the external calls a request for L can make: the fromUrl
\* calls that reject (failRes), the one of them that rejects first (firstFail),
\* and the sendMessage call that rejects (failSend, 0 for none)
Envs(L) ==
  LET nFetch == IF IsArray(L.imageUrl) THEN Len(L.imageUrl.a)
                ELSE IF IsString(L.imageUrl) THEN 1 ELSE 0
      nSend == IF IsArray(L.imageUrl) THEN Len(L.imageUrl.a) ELSE 1 IN
  {[failRes |-> F, firstFail |-> f, failSend |-> k] :
     <<F, f, k>> \in {x \in (SUBSET (1..nFetch)) \X (0..nFetch) \X (0..nSend) :
                        IF x[1] = {} THEN x[2] = 0 ELSE x[2] \in x[1]}}

Post ==
  /\ reqs[1].pc = "idle"
  /\ \E L \in Logicals(MaxImgs), shape \in Shapes :
       \E env \in Envs(L) : PostReply(1, L, shape, env)

\* a request without a decodable payload arrives
PostMalformed ==
  /\ alive /\ server = "listening"
  /\ reqs[1].pc = "idle"
  /\ \E shape \in MalformedShapes :
       \E body \in MalformedBodies(shape) :
         reqs' = [reqs EXCEPT ![1] = HandleReplyStart([IdleReq EXCEPT !.shape = shape], body)]
  /\ UNCHANGED <<alive, msgs, server, initPc, nInit, session, qrTasks, nEvents>>

\* app.listen's callback: the server is up, startBot() calls client.initialize()
Listen ==
  /\ alive /\ server = "down"
  /\ server' = "listening"
  /\ initPc' = "initializing" /\ nInit' = nInit + 1
  /\ UNCHANGED <<alive, msgs, reqs, session, qrTasks, nEvents>>

(***************************************************************************)
(* client.on('message'): the relay of one inbound message to the webhook   *)
(***************************************************************************)
Msgs == 1..NumMsg

\* the body of the token endpoint's response (data = await response.json())
NoTokenData == [access_token |-> Undef, error_description |-> Undef]
GoodTokenData == [access_token |-> Str("tok"), error_description |-> Undef]

NoError == [thrownBy |-> "", text |-> Undef]

IdleMsg ==
  [pc |-> "idle", fromMe |-> FALSE, hasMedia |-> FALSE,
   body |-> Str(""), caption |-> Undef,
   failAt |-> "none", tokenData |-> NoTokenData,
   calls |-> <<>>, token |-> Undef, posted |-> <<>>,
   caught |-> FALSE, err |-> NoError, logged |-> FALSE]

\* the external calls the relay of a message makes, in order
RelayCalls(hasMedia) ==
  IF hasMedia THEN <<"token", "download", "upload", "post">> ELSE <<"token", "post">>

\* Faulty variant of SelfOriginated: msg.fromMe is not looked at
SelfOriginated_Ignored(msg) == FALSE

\* if (msg.fromMe) return;
SelfOriginated(msg) == msg.fromMe

\* an external call is made and awaited
Call(msg, name) == [msg EXCEPT !.pc = name, !.calls = Append(@, name)]

\* Faulty variant of RelayCaught: the rejection escapes the handler and ends the process
RelayCaught_Escapes(m, err) ==
  /\ msgs' = [msgs EXCEPT ![m].pc = "done"]
  /\ alive' = FALSE

\* catch (err) { console.error('Gagal kirim ke webhook', err) }
RelayCaught(m, err) ==
  /\ msgs' = [msgs EXCEPT ![m].pc = "done", ![m].caught = TRUE, ![m].err = err]
  /\ alive' = alive

\* the error an external call rejects with
Rejection(call) == [thrownBy |-> call, text |-> Str("rejected")]

(***************************************************************************)
(* getAccessToken                                                          *)
(***************************************************************************)
\* Faulty variant of TokenMissing: the response is never validated
TokenMissing_Unchecked(data) == FALSE

\* if (!data.access_token)
TokenMissing(data) == ~Truthy(data.access_token)

\* JSON.stringify(data), kept symbolic
DataJson == Str("JSON.stringify(data)")

\* new Error(`Gagal ambil access token: ${data.error_description || JSON.stringify(data)}`)
TokenError(data) ==
  [thrownBy |-> "getAccessToken",
   text |-> IF Truthy(data.error_description) THEN data.error_description ELSE DataJson]

(***************************************************************************)
(* The webhook payload                                                     *)
(***************************************************************************)
Sender == Str("62811@c.us")           \* msg.from
SecureUrl == Str("https://res/img")   \* upload.secure_url
Mimetype == Str("image/jpeg")         \* media.mimetype
Timestamp == Str("now")               \* new Date().toISOString()

Pair(k, v) == [k |-> k, v |-> v]

\* JSON.stringify of an object literal: keys in order, undefined values dropped
StringifyPairs(pairs) == SelectSeq(pairs, LAMBDA p : p.v.t # "undef")

\* Faulty variant of MediaText: the caption is ignored
MediaText_BodyOnly(msg) == msg.body

\* text: msg.caption || msg.body || ''
MediaText(msg) ==
  IF Truthy(msg.caption) THEN msg.caption
  ELSE IF Truthy(msg.body) THEN msg.body
  ELSE Str("")

\* lines 130-137: the body of the POST for a media message
MediaPayload(msg) ==
  StringifyPairs(<<Pair("from", Sender), Pair("imageUrl", SecureUrl),
                   Pair("mimetype", Mimetype), Pair("text", MediaText(msg)),
                   Pair("access_token", msg.token), Pair("timestamp", Timestamp)>>)

\* lines 145-150: the body of the POST for a text message
TextPayload(msg) ==
  StringifyPairs(<<Pair("from", Sender), Pair("text", msg.body),
                   Pair("access_token", msg.token), Pair("timestamp", Timestamp)>>)

\* await fetch(process.env.WEBHOOK_URL, { method: 'POST', body: ... }) is called
PostWebhook(msg) ==
  [Call(msg, "post") EXCEPT
     !.posted = IF msg.hasMedia THEN MediaPayload(msg) ELSE TextPayload(msg)]

\* Faulty variant of AfterToken: the media branch posts before it downloads
AfterToken_PostFirst(msg) == PostWebhook(msg)

\* line 120: if (msg.hasMedia) download first, else POST
AfterToken(msg) == IF msg.hasMedia THEN Call(msg, "download") ELSE PostWebhook(msg)

(***************************************************************************)
(* The message handler, one action per await                               *)
(***************************************************************************)
\* the 'message' event: the handler runs up to its first await (or returns);
\* the first await is the fetch of the token endpoint inside getAccessToken
OnMessage(m, in) ==
  LET msg == [IdleMsg EXCEPT !.fromMe = in.fromMe, !.hasMedia = in.hasMedia,
                             !.body = in.body, !.caption = in.caption,
                             !.failAt = in.failAt, !.tokenData = in.tokenData] IN
  /\ alive /\ initPc # "idle"
  /\ msgs[m].pc = "idle"
  /\ msgs' = [msgs EXCEPT ![m] =
       IF SelfOriginated(msg) THEN [msg EXCEPT !.pc = "done"] ELSE Call(msg, "token")]
  /\ UNCHANGED <<alive, reqs, server, initPc, nInit, session, qrTasks, nEvents>>

\* await fetch(serviceAccount.token_uri, ...) settles; response.json() is awaited
TokenFetched(m) ==
  /\ alive /\ msgs[m].pc = "token"
  /\ IF msgs[m].failAt = "token"
       THEN RelayCaught(m, Rejection("token"))
       ELSE msgs' = [msgs EXCEPT ![m].pc = "tokenJson"] /\ alive' = alive
  /\ UNCHANGED <<reqs, server, initPc, nInit, session, qrTasks, nEvents>>

\* await response.json() settles; the token is validated and returned to the
\* handler, which goes on to its next await
TokenDone(m) ==
  LET data == msgs[m].tokenData IN
  /\ alive /\ msgs[m].pc = "tokenJson"
  /\ IF msgs[m].failAt = "tokenJson"
       THEN RelayCaught(m, Rejection("tokenJson"))
     ELSE IF TokenMissing(data)
       THEN RelayCaught(m, TokenError(data))
     ELSE /\ msgs' = [msgs EXCEPT ![m] =
               AfterToken([msgs[m] EXCEPT !.token = data.access_token])]
          /\ alive' = alive
  /\ UNCHANGED <<reqs, server, initPc, nInit, session, qrTasks, nEvents>>

\* await msg.downloadMedia() settles
DownloadDone(m) ==
  /\ alive /\ msgs[m].pc = "download"
  /\ IF msgs[m].failAt = "download"
       THEN RelayCaught(m, Rejection("download"))
       ELSE msgs' = [msgs EXCEPT ![m] = Call(@, "upload")] /\ alive' = alive
  /\ UNCHANGED <<reqs, server, initPc, nInit, session, qrTasks, nEvents>>

\* await cloudinary.v2.uploader.upload(...) settles
UploadDone(m) ==
  /\ alive /\ msgs[m].pc = "upload"
  /\ IF msgs[m].failAt = "upload"
       THEN RelayCaught(m, Rejection("upload"))
       ELSE msgs' = [msgs EXCEPT ![m] = PostWebhook(@)] /\ alive' = alive
  /\ UNCHANGED <<reqs, server, initPc, nInit, session, qrTasks, nEvents>>

\* await fetch(process.env.WEBHOOK_URL, ...) settles; the status is logged
WebhookDone(m) ==
  /\ alive /\ msgs[m].pc = "post"
  /\ IF msgs[m].failAt = "post"
       THEN RelayCaught(m, Rejection("post"))
       ELSE /\ msgs' = [msgs EXCEPT ![m].pc = "done", ![m].logged = TRUE]
            /\ alive' = alive
  /\ UNCHANGED <<reqs, server, initPc, nInit, session, qrTasks, nEvents>>

RelayStep(m) ==
  TokenFetched(m) \/ TokenDone(m) \/ DownloadDone(m) \/ UploadDone(m) \/ WebhookDone(m)

(***************************************************************************)
(* The messages the model delivers                                         *)
(***************************************************************************)
\* the awaits of a relay that the environment can make reject
FailPoints(hasMedia) ==
  {"none", "tokenJson"} \cup {RelayCalls(hasMedia)[i] : i \in 1..Len(RelayCalls(hasMedia))}

\* the messages with the given bodies, captions (media only) and token
\* responses without a token; a rejected call comes with a good token response
MessageInputs(bodies, captions, badData) ==
  LET content(fromMe, hasMedia) ==
        [fromMe : {fromMe}, hasMedia : {hasMedia}, body : bodies,
         caption : IF hasMedia THEN captions ELSE {Undef}] IN
  UNION {
    {[fromMe |-> c.fromMe, hasMedia |-> c.hasMedia, body |-> c.body,
      caption |-> c.caption, failAt |-> e.failAt, tokenData |-> e.tokenData] :
       c \in content(fromMe, hasMedia),
       e \in IF fromMe
               THEN {[failAt |-> "none", tokenData |-> GoodTokenData]}
               ELSE {[failAt |-> f, tokenData |-> GoodTokenData] : f \in FailPoints(hasMedia)}
                    \cup {[failAt |-> "none", tokenData |-> d] : d \in badData}} :
     fromMe \in BOOLEAN, hasMedia \in BOOLEAN}

\* several messages at once: one body, no caption, one token failure
Message ==
  \E m \in Msgs :
    /\ msgs[m].pc = "idle"
    /\ \E in \in MessageInputs({Str("halo")}, {Undef},
                               {[access_token |-> Undef,
                                 error_description |-> Str("invalid_grant")]}) :
         OnMessage(m, in)

\* one message, with every content and every token response
TokenDatas ==
  [access_token : {Undef, Str(""), Str("tok")},
   error_description : {Undef, Str("invalid_grant")}]

MessageOne ==
  /\ msgs[1].pc = "idle"
  /\ \E in \in MessageInputs({Str(""), Str("halo")}, {Undef, Str(""), Str("foto")},
                             {d \in TokenDatas : ~Truthy(d.access_token)}) :
       OnMessage(1, in)

(***************************************************************************)
(* The session: startBot, setupQR and setupClientStatus.  The program      *)
(* keeps no lifecycle variable of its own; session is the state the        *)
(* handlers last reported: 'qr' starts a pairing (the code is rendered and *)
(* hosted), 'ready', 'auth_failure' and 'disconnected' are logged.         *)
(***************************************************************************)
\* Faulty variant of InitFailed: the rejection leaves startBot and ends the process
InitFailed_Escapes == initPc' = "failed" /\ nInit' = nInit /\ alive' = FALSE

\* catch (err) { console.error('Gagal inisialisasi client1:', err.message) }
InitFailed == initPc' = "failed" /\ nInit' = nInit /\ alive' = alive

\* await client.initialize() settles
InitializeDone ==
  /\ alive /\ initPc = "initializing"
  /\ \E ok \in BOOLEAN :
       IF ok THEN initPc' = "done" /\ nInit' = nInit /\ alive' = alive
             ELSE InitFailed
  /\ UNCHANGED <<msgs, reqs, server, session, qrTasks, nEvents>>

\* the session provider emits an event
Emits == alive /\ initPc # "idle" /\ nEvents < MaxEvents /\ nEvents' = nEvents + 1

\* client.on('qr'): "Scan QR" is logged and qrcode.toDataURL(qr) is awaited
OnQr ==
  /\ Emits
  /\ session' = "pairing"
  /\ qrTasks' = [qrTasks EXCEPT !.render = @ + 1]
  /\ UNCHANGED <<alive, msgs, reqs, server, initPc, nInit>>

\* a rejection inside the qr handler is handled by nobody: node reports it and,
\* depending on its version and flags, goes on or ends the process
Unhandled == alive' \in BOOLEAN

\* await qrcode.toDataURL(qr) settles
QrRendered ==
  /\ alive /\ qrTasks.render > 0
  /\ \E ok \in BOOLEAN :
       IF ok THEN /\ qrTasks' = [qrTasks EXCEPT !.render = @ - 1, !.upload = @ + 1]
                  /\ alive' = alive
             ELSE /\ qrTasks' = [qrTasks EXCEPT !.render = @ - 1, !.failed = @ + 1]
                  /\ Unhandled
  /\ UNCHANGED <<msgs, reqs, server, initPc, nInit, session, nEvents>>

\* await cloudinary.v2.uploader.upload(url, ...) settles; the URL is logged
QrUploaded ==
  /\ alive /\ qrTasks.upload > 0
  /\ \E ok \in BOOLEAN :
       IF ok THEN /\ qrTasks' = [qrTasks EXCEPT !.upload = @ - 1]
                  /\ alive' = alive
             ELSE /\ qrTasks' = [qrTasks EXCEPT !.upload = @ - 1, !.failed = @ + 1]
                  /\ Unhandled
  /\ UNCHANGED <<msgs, reqs, server, initPc, nInit, session, nEvents>>

\* client.on('ready')
OnReady ==
  /\ Emits
  /\ session' = "ready"
  /\ UNCHANGED <<alive, msgs, reqs, server, initPc, nInit, qrTasks>>

\* client.on('auth_failure')
OnAuthFailure ==
  /\ Emits
  /\ session' = "auth_failed"
  /\ UNCHANGED <<alive, msgs, reqs, server, initPc, nInit, qrTasks>>

\* client.on('disconnected')
OnDisconnected ==
  /\ Emits
  /\ session' = "disconnected"
  /\ UNCHANGED <<alive, msgs, reqs, server, initPc, nInit, qrTasks>>

\* client.on('loading_screen'): the percentage is logged, nothing else
OnLoadingScreen ==
  /\ Emits
  /\ UNCHANGED <<alive, msgs, reqs, server, initPc, nInit, session, qrTasks>>

Init ==
  /\ alive = TRUE
  /\ msgs = [m \in Msgs |-> IdleMsg]
  /\ reqs = [r \in Reqs |-> IdleReq]
  /\ server = "down"
  /\ initPc = "idle"
  /\ nInit = 0
  /\ session = "uninitialized"
  /\ qrTasks = [render |-> 0, upload |-> 0, failed |-> 0]
  /\ nEvents = 0

ReplyStep ==
  \/ \E r \in Reqs : \E i \in 1..MaxImgs + 1 : FromUrlDone(r, i)
  \/ \E r \in Reqs : PromiseAllDone(r)
  \/ \E r \in Reqs : SendMessageDone(r)

NextReply == Listen \/ Post \/ PostMalformed \/ ReplyStep

SpecReply == Init /\ [][NextReply]_vars

NextRelay == Listen \/ Message \/ \E m \in Msgs : RelayStep(m)

NextOne == Listen \/ MessageOne \/ RelayStep(1)

SpecOne == Init /\ [][NextOne]_vars

\* the event loop runs every continuation that is ready, and every external
\* call of a relay settles
SpecRelay ==
  Init /\ [][NextRelay]_vars /\ \A m \in Msgs : WF_vars(RelayStep(m))

NextSession ==
  \/ Listen
  \/ InitializeDone
  \/ OnQr
  \/ QrRendered
  \/ QrUploaded
  \/ OnReady
  \/ OnAuthFailure
  \/ OnDisconnected
  \/ OnLoadingScreen

SpecSession == Init /\ [][NextSession]_vars

(***************************************************************************)
(* One reply request, well-formed or not, every call of which settles.     *)
(***************************************************************************)
PostLive ==
  /\ reqs[1].pc = "idle"
  /\ \E L \in Logicals(MaxPairImgs) :
       \E env \in Envs(L) : PostReply(1, L, "dataString", env)

NextLive == Listen \/ PostLive \/ PostMalformed \/ ReplyStep

SpecLive == Init /\ [][NextLive]_vars /\ WF_vars(ReplyStep)

(***************************************************************************)
(* The whole bot with one reply request: the session events and the        *)
(* handling of a request to a known chat, in any interleaving.             *)
(***************************************************************************)
PostBot ==
  /\ reqs[1].pc = "idle"
  /\ \E L \in {l \in Logicals(0) : l.from = Str("x") /\ l.caption = Undef} :
       \E env \in Envs(L) : PostReply(1, L, "bare", env)

NextBot == NextSession \/ PostBot \/ ReplyStep

SpecBot == Init /\ [][NextBot]_vars

(***************************************************************************)
(* Two requests handled together.  The second is a variant of the first    *)
(* under the same environment: the same logical request in another arrival *)
(* shape, or the same request with its single URL wrapped in an array.     *)
(***************************************************************************)
Variants(q) ==
  {[logical |-> q.logical, shape |-> sh] :
     sh \in (IF q.shape = "bare" THEN Shapes \ {"bare"} ELSE {})}
  \cup
  (IF IsString(q.logical.imageUrl)
     THEN {[logical |-> [q.logical EXCEPT !.imageUrl = Arr(<<q.logical.imageUrl.s>>)],
            shape |-> q.shape]}
     ELSE {})

PostFirst ==
  /\ reqs[1].pc = "idle"
  /\ \E L \in Logicals(MaxPairImgs), shape \in Shapes :
       /\ shape = "bare" \/ IsString(L.imageUrl)
       /\ \E env \in Envs(L) : PostReply(1, L, shape, env)

PostSecond ==
  /\ reqs[1].pc # "idle" /\ reqs[2].pc = "idle"
  /\ \E v \in Variants(reqs[1]) : PostReply(2, v.logical, v.shape, reqs[1].env)

NextTwo == Listen \/ PostFirst \/ PostSecond \/ ReplyStep

SpecTwo == Init /\ [][NextTwo]_vars

(***************************************************************************)
(* Claims about handleReply                                                *)
(***************************************************************************)
Arrived(r) == reqs[r].pc # "idle"
Done(r) == reqs[r].pc = "done"
Lacks(v) == v.t = "undef"
NoFailure(r) == reqs[r].env.failRes = {} /\ reqs[r].env.failSend = 0
Resolved(r) == Arrived(r) /\ ~ResolveThrows(reqs[r].body)

\* what handleReply did that the outside can see
Observable(r) ==
  [urls |-> reqs[r].urls, sends |-> reqs[r].sends,
   status |-> reqs[r].status, detail |-> reqs[r].detail]

\* C2: a request whose resolved payload lacks `from`, or lacks both `reply` and
\* `imageUrl`, is answered 400 at once, with no send and no media resolution.
C2_RejectedBeforeAnySend ==
  \A r \in Reqs :
    (Resolved(r) /\ (Lacks(reqs[r].payload.from)
                    \/ (Lacks(reqs[r].payload.reply) /\ Lacks(reqs[r].payload.imageUrl))))
      => /\ Done(r) /\ reqs[r].status = 400 /\ reqs[r].nresp = 1
         /\ reqs[r].sends = <<>> /\ reqs[r].urls = <<>>

C2_Witness ==
  \E r \in Reqs :
    /\ Done(r) /\ reqs[r].status = 400
    /\ Lacks(reqs[r].payload.from) /\ IsArray(reqs[r].payload.imageUrl)
    /\ ~Lacks(reqs[r].payload.reply)

\* C3: a valid request with an array of n >= 2 URLs, none of whose resolutions or
\* sends fails, issues exactly n sends, the i-th carrying the media of the i-th
\* URL, all to `from`, with a caption option on the first send only and no text
\* send; the sends are issued one after the other in that order.
C3_GalleryInOrder ==
  \A r \in Reqs :
    LET q == reqs[r]
        xs == q.payload.imageUrl.a IN
    (Arrived(r) /\ IsArray(q.payload.imageUrl) /\ Len(xs) >= 2
       /\ ~Lacks(q.payload.from) /\ NoFailure(r))
      => /\ Len(q.sends) <= Len(xs)
         /\ \A i \in 1..Len(q.sends) :
              /\ q.sends[i].to = q.payload.from
              /\ q.sends[i].content = [kind |-> "media", src |-> Str(xs[i])]
              /\ q.sends[i].opts.hasCaption <=> (i = 1)
              /\ (i < Len(q.sends)) => q.sends[i].st = "ok"
         /\ Done(r) => (Len(q.sends) = Len(xs) /\ q.status = 200
                        /\ q.sends[Len(xs)].st = "ok")

C3_Witness ==
  \E r \in Reqs :
    /\ Done(r) /\ NoFailure(r) /\ reqs[r].status = 200
    /\ reqs[r].payload.imageUrl = Arr(<<"a", "b", "a">>)
    /\ Len(reqs[r].sends) = 3
    /\ ~Lacks(reqs[r].payload.reply)

\* C6 as claimed: the caption of the captioned send is caption ?? reply ?? ''
\* (`caption` whenever it is not null/undefined, the empty string included).
C6_CaptionNullish ==
  \A r \in Reqs :
    LET q == reqs[r]
        p == q.payload IN
    (Len(q.sends) >= 1 /\ q.sends[1].content.kind = "media")
      => /\ q.sends[1].opts.hasCaption
         /\ q.sends[1].opts.caption =
              (IF p.caption.t \notin {"undef", "null"} THEN p.caption
               ELSE IF p.reply.t \notin {"undef", "null"} THEN p.reply
               ELSE Str(""))

\* C6 amended: the caption of the captioned send of an image reply is the
\* request's `caption` when that is a non-empty string, otherwise `reply` when
\* that is a non-empty string, otherwise the empty string (caption || reply || '').
C6_CaptionFalsyFallback ==
  \A r \in Reqs :
    LET q == reqs[r]
        p == q.payload
        nonEmpty(v) == v.t = "str" /\ v.s # "" IN
    (Len(q.sends) >= 1 /\ q.sends[1].content.kind = "media")
      => /\ q.sends[1].opts.hasCaption
         /\ nonEmpty(p.caption) => q.sends[1].opts.caption = p.caption
         /\ (~nonEmpty(p.caption) /\ nonEmpty(p.reply))
              => q.sends[1].opts.caption = p.reply
         /\ (~nonEmpty(p.caption) /\ ~nonEmpty(p.reply))
              => q.sends[1].opts.caption = Str("")

C6_Witness ==
  \E r \in Reqs :
    /\ Len(reqs[r].sends) >= 1 /\ reqs[r].sends[1].content.kind = "media"
    /\ reqs[r].payload.caption = Str("") /\ reqs[r].payload.reply = Str("hi")
    /\ reqs[r].sends[1].opts.caption = Str("hi")

\* C7: in a multi-image batch, when the k-th send is the first to fail, the
\* sends 1..k-1 are completed and stay so, no later send is attempted, and the
\* request is answered 500 with the send's error message as detail.
C7_BatchAbortsAtFirstFailure ==
  \A r \in Reqs :
    LET q == reqs[r] IN
    \A k \in 1..Len(q.sends) :
      (q.mode = "all" /\ q.sends[k].st = "failed")
        => /\ Len(q.sends) = k
           /\ \A j \in 1..(k - 1) : q.sends[j].st = "ok"
           /\ Done(r) /\ q.status = 500 /\ q.nresp = 1
           /\ q.detail = [call |-> "sendMessage", i |-> k]

C7_Witness ==
  \E r \in Reqs :
    /\ reqs[r].mode = "all" /\ Len(reqs[r].urls) = 3
    /\ Len(reqs[r].sends) = 2
    /\ reqs[r].sends[1].st = "ok" /\ reqs[r].sends[2].st = "failed"
    /\ reqs[r].status = 500

\* C4: a request with imageUrl = [u] and the same request with imageUrl = u
\* produce the same media resolutions, sends and HTTP response under the same
\* outcomes of the external calls.
C4_OneElementArrayAsString ==
  \A r1, r2 \in Reqs :
    LET L1 == reqs[r1].logical
        L2 == reqs[r2].logical IN
    (Done(r1) /\ Done(r2) /\ reqs[r1].env = reqs[r2].env
       /\ reqs[r1].shape = reqs[r2].shape
       /\ IsString(L1.imageUrl)
       /\ L2 = [L1 EXCEPT !.imageUrl = Arr(<<L1.imageUrl.s>>)])
      => Observable(r1) = Observable(r2)

C4_Witness ==
  /\ Done(1) /\ Done(2)
  /\ IsString(reqs[1].logical.imageUrl)
  /\ reqs[2].logical.imageUrl = Arr(<<reqs[1].logical.imageUrl.s>>)
  /\ reqs[1].status = 200 /\ Len(reqs[2].sends) = 1
  /\ reqs[2].sends[1].opts.caption = Str("cap")

\* C5: the four arrival shapes of one logical request resolve to that request's
\* (from, reply, imageUrl, caption) and produce the same sends and response.
C5_ShapesResolveAlike ==
  /\ \A r \in Reqs : Arrived(r) => reqs[r].payload = reqs[r].logical
  /\ \A r1, r2 \in Reqs :
       (Done(r1) /\ Done(r2) /\ reqs[r1].env = reqs[r2].env
          /\ reqs[r1].logical = reqs[r2].logical)
         => Observable(r1) = Observable(r2)

C5_Witness ==
  /\ Done(1) /\ Done(2)
  /\ reqs[1].shape = "bare" /\ reqs[2].shape = "dataString"
  /\ reqs[1].logical = reqs[2].logical
  /\ reqs[2].status = 200 /\ Len(reqs[2].sends) = 2
  /\ reqs[2].payload.caption = Null

\* C9 as claimed: at most one client.sendMessage call is in flight at any time.
C9_OneSendInFlight ==
  Cardinality({r \in Reqs : reqs[r].pc = "sending"}) <= 1

(***************************************************************************)
(* Claims about the message relay                                          *)
(***************************************************************************)
Count(seq, x) == Cardinality({i \in 1..Len(seq) : seq[i] = x})

\* one of the message's awaits rejects, or the token endpoint gives no token
Fails(msg) == msg.failAt # "none" \/ ~Truthy(msg.tokenData.access_token)

\* C1: the handler of a message with msg.fromMe true makes no outbound call
\* (token fetch, download, upload, webhook POST), whatever the other messages do.
C1_SelfOriginatedNotRelayed ==
  \A m \in Msgs :
    (msgs[m].pc # "idle" /\ msgs[m].fromMe)
      => msgs[m].calls = <<>> /\ msgs[m].pc = "done"

C1_Witness ==
  \E m, n \in Msgs :
    /\ msgs[m].pc = "done" /\ msgs[m].fromMe /\ msgs[m].hasMedia
    /\ msgs[n].pc = "post" /\ ~msgs[n].fromMe

\* C8: a failure at any step of a message's relay is caught in its handler (the
\* process lives on), the handler POSTs to the webhook at most once, and every
\* other message whose own calls succeed is still relayed to the webhook.
C8_RelayFailureIsolated ==
  /\ [](alive /\ \A m \in Msgs :
          /\ Count(msgs[m].calls, "post") <= 1
          /\ Count(msgs[m].calls, "token") <= 1
          /\ (msgs[m].pc = "done" /\ Fails(msgs[m])) => msgs[m].caught)
  /\ \A m \in Msgs :
       (msgs[m].pc \notin {"idle", "done"} /\ ~Fails(msgs[m]))
         ~> (msgs[m].pc = "done" /\ msgs[m].logged /\ ~msgs[m].caught
             /\ Count(msgs[m].calls, "post") = 1)

C8_Witness ==
  \E m, n \in Msgs :
    /\ msgs[m].pc = "done" /\ msgs[m].caught /\ msgs[m].failAt = "upload"
    /\ msgs[n].pc = "done" /\ msgs[n].logged /\ msgs[n].calls[Len(msgs[n].calls)] = "post"

(***************************************************************************)
(* Claims about the session                                                *)
(***************************************************************************)
\* C10 as claimed: once ready, disconnected or auth_failed the session is never
\* treated as pairing again, and disconnected and auth_failed are terminal.
C10_LifecycleForwardOnly ==
  [][/\ (session \in {"ready", "disconnected", "auth_failed"}) => session' # "pairing"
     /\ (session \in {"disconnected", "auth_failed"}) => session' = session]_vars

\* C11 as claimed: when rendering or hosting the pairing QR fails in the qr
\* handler, the failure is caught there and has no further effect: the process
\* keeps running.
C11_QrFailureHarmless == qrTasks.failed > 0 => alive

\* the webhook has been POSTed for the message
Posted(msg) == Count(msg.calls, "post") > 0

FieldNames(payload) == {payload[i].k : i \in 1..Len(payload)}

FieldValue(payload, k) ==
  LET hits == {i \in 1..Len(payload) : payload[i].k = k} IN
  IF hits = {} THEN Undef ELSE payload[CHOOSE i \in hits : TRUE].v

\* C12 as claimed: the webhook payload of a media message has exactly the fields
\* from, imageUrl, mimetype, text, accessToken, timestamp, with text the caption
\* if there is one and the body otherwise; that of a text message has exactly
\* from, text, accessToken, timestamp, with text the body.
C12_PayloadAsClaimed ==
  \A m \in Msgs :
    Posted(msgs[m]) =>
      IF msgs[m].hasMedia
        THEN /\ FieldNames(msgs[m].posted) =
                  {"from", "imageUrl", "mimetype", "text", "accessToken", "timestamp"}
             /\ FieldValue(msgs[m].posted, "text") =
                  IF msgs[m].caption # Undef THEN msgs[m].caption ELSE msgs[m].body
        ELSE /\ FieldNames(msgs[m].posted) = {"from", "text", "accessToken", "timestamp"}
             /\ FieldValue(msgs[m].posted, "text") = msgs[m].body

\* C12 amended: the token travels in the field access_token, and the text of a
\* media message is the caption only if it is a non-empty string, the body
\* otherwise; the fields are otherwise as claimed, a text message has no
\* imageUrl, and the token sent is the one the token endpoint returned.
C12_PayloadFields ==
  \A m \in Msgs :
    Posted(msgs[m]) =>
      /\ FieldValue(msgs[m].posted, "from") = Sender
      /\ FieldValue(msgs[m].posted, "access_token") = msgs[m].tokenData.access_token
      /\ FieldValue(msgs[m].posted, "timestamp") = Timestamp
      /\ IF msgs[m].hasMedia
           THEN /\ FieldNames(msgs[m].posted) =
                     {"from", "imageUrl", "mimetype", "text", "access_token", "timestamp"}
                /\ FieldValue(msgs[m].posted, "imageUrl") = SecureUrl
                /\ FieldValue(msgs[m].posted, "mimetype") = Mimetype
                /\ FieldValue(msgs[m].posted, "text") =
                     IF msgs[m].caption \notin {Undef, Str("")}
                       THEN msgs[m].caption ELSE msgs[m].body
           ELSE /\ FieldNames(msgs[m].posted) = {"from", "text", "access_token", "timestamp"}
                /\ FieldValue(msgs[m].posted, "text") = msgs[m].body

\* a media message with a caption and a body has been posted and logged
C12_Witness ==
  /\ msgs[1].pc = "done" /\ msgs[1].logged /\ msgs[1].hasMedia
  /\ msgs[1].caption = Str("foto") /\ msgs[1].body = Str("halo")
  /\ FieldValue(msgs[1].posted, "text") = Str("foto")

\* getAccessToken has been invoked for the message and has settled
TokenSettled(msg) == Count(msg.calls, "token") > 0 /\ msg.pc \notin {"token", "tokenJson"}

\* C14: getAccessToken calls the token endpoint exactly once per invocation;
\* when the response body has no access_token it throws, the message of the
\* error carries the endpoint's error_description if there is one, and no token
\* is returned (nothing is done with one afterwards).
C14_TokenValidated ==
  \A m \in Msgs :
    /\ (msgs[m].pc # "idle" /\ ~msgs[m].fromMe) => Count(msgs[m].calls, "token") = 1
    /\ ( /\ TokenSettled(msgs[m])
         /\ msgs[m].failAt \notin {"token", "tokenJson"}
         /\ msgs[m].tokenData.access_token \in {Undef, Str("")} )
       => /\ msgs[m].caught
          /\ msgs[m].err.thrownBy = "getAccessToken"
          /\ msgs[m].tokenData.error_description # Undef
               => msgs[m].err.text = msgs[m].tokenData.error_description
          /\ msgs[m].token = Undef
          /\ msgs[m].calls = <<"token">>
          /\ msgs[m].posted = <<>>

\* the token endpoint answered without a token but with an error_description,
\* and the handler has caught the error carrying it
C14_Witness ==
  /\ msgs[1].pc = "done" /\ msgs[1].caught
  /\ msgs[1].tokenData = [access_token |-> Undef, error_description |-> Str("invalid_grant")]
  /\ msgs[1].err = [thrownBy |-> "getAccessToken", text |-> Str("invalid_grant")]

\* C13 as claimed: /reply answers 500 only when a media resolution or a send
\* failed, and every malformed request (a body or a data string that cannot be
\* decoded, a missing body) is answered 400.
C13_MalformedIs400 ==
  \A r \in Reqs :
    Done(r) =>
      /\ reqs[r].status = 500 => reqs[r].detail.call \in {"fromUrl", "sendMessage"}
      /\ reqs[r].shape \in MalformedShapes => reqs[r].status = 400

\* C15: client.initialize() is called at most once, and only once the server
\* listens; when it fails, the step that catches the failure leaves the process
\* running and the server listening, and after it has settled (either way)
\* startBot never calls it again.
C15_InitializeOnce ==
  /\ [](nInit <= 1 /\ (nInit > 0 => server = "listening") /\ (nInit = 0 <=> initPc = "idle"))
  /\ [][(initPc = "initializing" /\ initPc' = "failed")
          => (alive' /\ server' = "listening" /\ nInit' = nInit)]_vars
  /\ [][(initPc # "initializing" /\ nInit > 0) => (initPc' = initPc /\ nInit' = nInit)]_vars

\* initialization has failed, and a reply request has been answered with success
C15_Witness ==
  /\ initPc = "failed" /\ nInit = 1 /\ alive /\ server = "listening"
  /\ reqs[1].pc = "done" /\ reqs[1].status = 200

\* C16: in a reply with an array of two or more URLs, a send is issued only once
\* every URL has been resolved; if any resolution fails there is no send at all
\* and the answer is 500, in whatever order the resolutions settle.
C16_GalleryAllOrNothing ==
  \A r \in Reqs :
    (reqs[r].mode = "all" /\ Len(reqs[r].urls) >= 2) =>
      /\ reqs[r].sends # <<>> =>
           /\ reqs[r].resolved = 1..Len(reqs[r].urls)
           /\ reqs[r].pending = {}
      /\ reqs[r].env.failRes # {} =>
           /\ reqs[r].sends = <<>>
           /\ Done(r) => (reqs[r].status = 500 /\ reqs[r].detail.call = "fromUrl")

\* of three URLs the second failed to resolve after the two others had been
\* resolved; the request was answered 500 without a send
C16_Witness ==
  /\ Done(1) /\ reqs[1].mode = "all" /\ Len(reqs[1].urls) = 3
  /\ reqs[1].env.failRes = {2} /\ reqs[1].resolved = {1, 3}
  /\ reqs[1].status = 500 /\ reqs[1].sends = <<>>

IsPrefix(s, t) == Len(s) <= Len(t) /\ \A i \in 1..Len(s) : s[i] = t[i]

\* the token fetch of the message has failed
TokenFailed(msg) ==
  /\ TokenSettled(msg)
  /\ msg.failAt \in {"token", "tokenJson"} \/ msg.tokenData.access_token = Undef

\* C17: the relay of a message not sent by the bot itself calls, in this order,
\* the token endpoint, then for media the download and the upload, then the
\* webhook; every relayed message has exactly one token fetch of its own, a
\* relay without failure makes all the calls, and after a failed token fetch
\* nothing else is called.
C17_RelayOrder ==
  \A m \in Msgs :
    (msgs[m].pc # "idle" /\ ~msgs[m].fromMe) =>
      /\ IsPrefix(msgs[m].calls,
                  IF msgs[m].hasMedia THEN <<"token", "download", "upload", "post">>
                                      ELSE <<"token", "post">>)
      /\ Count(msgs[m].calls, "token") = 1
      /\ (msgs[m].pc = "done" /\ ~Fails(msgs[m]))
           => Len(msgs[m].calls) = IF msgs[m].hasMedia THEN 4 ELSE 2
      /\ TokenFailed(msgs[m]) => (msgs[m].calls = <<"token">> /\ msgs[m].posted = <<>>)

\* one media message relayed in full, another stopped by its failed token fetch
C17_Witness ==
  /\ msgs[1].pc = "done" /\ msgs[1].hasMedia /\ msgs[1].logged
  /\ msgs[1].calls = <<"token", "download", "upload", "post">>
  /\ msgs[2].pc = "done" /\ msgs[2].hasMedia /\ msgs[2].failAt = "token"
  /\ msgs[2].calls = <<"token">>

\* C18 as claimed: a request answered {success: true} has had at least one send
\* to its `from` completed before the answer, also when imageUrl is an empty
\* array.
C18_SuccessMeansSent ==
  \A r \in Reqs :
    (Done(r) /\ reqs[r].status = 200) =>
      \E i \in 1..Len(reqs[r].sends) :
        reqs[r].sends[i].st = "ok" /\ reqs[r].sends[i].to = reqs[r].payload.from

\* C19 as claimed: client.sendMessage is called only while the session is ready.
C19_SendOnlyWhenReady ==
  [][\A r \in Reqs :
       Len(reqs'[r].sends) > Len(reqs[r].sends) => session = "ready"]_vars

\* C20: when every media resolution and every send settles, every /reply
\* request is answered, exactly once, with 200, 400 or 500; an answered request
\* is never answered again, and no failure leaves handleReply (the process goes
\* on).
C20_AnsweredExactlyOnce ==
  /\ [](alive /\ \A r \in Reqs :
          /\ reqs[r].nresp <= 1
          /\ Done(r) => (reqs[r].nresp = 1 /\ reqs[r].status \in {200, 400, 500})
          /\ ~Done(r) => reqs[r].nresp = 0)
  /\ \A r \in Reqs : Arrived(r) ~> (Done(r) /\ reqs[r].nresp = 1)

\* a gallery whose second send failed has been answered, once, with 500
C20_Witness ==
  /\ Done(1) /\ reqs[1].nresp = 1 /\ reqs[1].status = 500
  /\ reqs[1].detail = ErrMsg("sendMessage", 2) /\ reqs[1].pending = {}

====
